---------------------------- MODULE Spec2Model ----------------------------
(***************************************************************************)
(* Draft lifecycle of dirtiestships-website: the blog generator            *)
(* (emissions_blog_generator.py) turns archived news items into drafts,    *)
(* an editor schedules them, and the cron tick                             *)
(* (check_scheduled_emissions.py) publishes the drafts that are due.       *)
(* Texts are sequences of one-character strings so that slugify and the    *)
(* collision suffix are computed character by character.                   *)
(***************************************************************************)
EXTENDS Integers, Sequences, FiniteSets, TLC

(***************************************************************************)
(* Bounds of the model.                                                    *)
(***************************************************************************)
MaxTime == 2
MaxPosts == 3
MaxDrafts == 2
MaxSlugs == 100
MaxFeed == 2

(***************************************************************************)
(* Text helpers.                                                           *)
(***************************************************************************)
Min(a, b) == IF a < b THEN a ELSE b

Rep(c, n) == [i \in 1..n |-> c]

Take(s, n) == SubSeq(s, 1, Min(n, Len(s)))

UpperSeq == <<"A", "B", "C", "E", "H", "I", "L", "M", "O", "S", "T", "U">>
LowerSeq == <<"a", "b", "c", "e", "h", "i", "l", "m", "o", "s", "t", "u">>
LowerLetters == {LowerSeq[i] : i \in DOMAIN LowerSeq} \cup {"d", "f", "p", "x"}
UpperLetters == {UpperSeq[i] : i \in DOMAIN UpperSeq}
DigitChar == <<"0", "1", "2", "3", "4", "5", "6", "7", "8", "9">>
DigitChars == {DigitChar[i] : i \in 1..10}

\* str.lower() on one character
Lower(c) ==
    IF \E i \in DOMAIN UpperSeq : UpperSeq[i] = c
    THEN LowerSeq[CHOOSE i \in DOMAIN UpperSeq : UpperSeq[i] = c]
    ELSE c

\* the regex class [\w\s-]
IsWordSpaceHyphen(c) == c \in LowerLetters \cup UpperLetters \cup DigitChars \cup {"_", " ", "-"}

\* the regex class [\s_-]
IsSep(c) == c \in {" ", "_", "-"}

\* re.sub(r"[\s_-]+", "-", text): every maximal run of separators becomes one "-"
CollapseSeps(s) ==
    LET idx == SelectSeq([i \in 1..Len(s) |-> i],
                         LAMBDA i : ~IsSep(s[i]) \/ i = 1 \/ ~IsSep(s[i - 1]))
    IN  [k \in 1..Len(idx) |-> IF IsSep(s[idx[k]]) THEN "-" ELSE s[idx[k]]]

RECURSIVE LStrip(_, _)
LStrip(s, c) == IF s # <<>> /\ Head(s) = c THEN LStrip(Tail(s), c) ELSE s

RECURSIVE RStrip(_, _)
RStrip(s, c) ==
    IF s # <<>> /\ s[Len(s)] = c THEN RStrip(SubSeq(s, 1, Len(s) - 1), c) ELSE s

\* emissions_blog_generator.slugify
slugify(text) ==
    LET lowered  == [i \in 1..Len(text) |-> Lower(text[i])]
        cleaned  == SelectSeq(lowered, IsWordSpaceHyphen)
        hyphened == CollapseSeps(cleaned)
        stripped == RStrip(LStrip(hyphened, "-"), "-")
    IN  RStrip(Take(stripped, 60), "-")

\* str(n) of the f-string in make_unique_slug
RECURSIVE Str(_)
Str(n) == IF n < 10 THEN <<DigitChar[n + 1]>>
          ELSE Str(n \div 10) \o <<DigitChar[(n % 10) + 1]>>

\* the suffix appended to the whole base slug
RECURSIVE UniqueFrom_no_cut(_, _, _, _)
UniqueFrom_no_cut(base_slug, existing, slug, n) ==
    IF slug \in existing
    THEN UniqueFrom_no_cut(base_slug, existing, base_slug \o <<"-">> \o Str(n), n + 1)
    ELSE slug

\* the loop of make_unique_slug, entered with slug and n
RECURSIVE UniqueFrom(_, _, _, _)
UniqueFrom(base_slug, existing, slug, n) ==
    IF slug \in existing
    THEN UniqueFrom(base_slug, existing, Take(base_slug, 57) \o <<"-">> \o Str(n), n + 1)
    ELSE slug

make_unique_slug(base_slug, existing) == UniqueFrom(base_slug, existing, base_slug, 2)


(***************************************************************************)
(* State.  Manifests are sequences of records, directories are sets of     *)
(* files [name, body]; a name occurs at most once in a directory.          *)
(***************************************************************************)
VARIABLES
    pc,             \* which process runs: "idle", "gen" (blog generator), "tick" (publisher)
    clock,          \* wall clock: minutes for the tick, days for the scrapers
    blog_drafts,    \* json/blog_drafts.json, the "posts" list
    blog_json,      \* json/blog.json, the "posts" list
    drafts_dir,     \* blog/posts/drafts/*.md
    posts_dir,      \* blog/posts/*.md
    sync_log,       \* calls of git_push, oldest first
    existing_urls,  \* generator: in-process set of source URLs
    existing_slugs, \* generator: in-process set of slugs
    articles,       \* generator: archived items not yet visited by the loop
    new_drafts,     \* generator: counter of drafts written in this run
    no_push,        \* generator: the --no-push flag its runs are started with
    blog_body,      \* generator: what generate_blog_body returned in the last pass
    now,            \* tick: datetime.now() taken at the start of main
    todo,           \* tick: the part of the snapshot list(drafts["posts"]) still to visit
    published_any,  \* tick: flag of main
    printed,        \* what the last pass of the running loop printed, <<>> for nothing
    news_json,      \* json/news.json, the rolling index as persisted
    news_dir,       \* news_emissions/*.json, the archive records
    news_index,     \* scraper: the index in memory
    seen_urls,      \* scraper: its in-process set existing_urls
    new_count,      \* scraper: counter of items archived in this run
    feed_left,      \* scraper: feed entries the run has still to visit
    entry,          \* scraper: the loop variable entry, the feed entry last visited
    which,          \* "emissions" or "hydrogen": the scraper whose runs are followed
    pushes,         \* number of calls of push_to_github
    assigned,       \* slugs handed out by the loop of the generator, oldest first
    ticks,          \* the tick processes followed statement by statement: id -> locals
    crashes         \* how many of these processes were killed so far

store == <<blog_drafts, blog_json, drafts_dir, posts_dir, sync_log>>
gen_locals == <<existing_urls, existing_slugs, articles, new_drafts, no_push, blog_body>>
tick_locals == <<now, todo, published_any>>
scraper_store == <<news_json, news_dir, pushes, which>>
scraper_locals == <<news_index, seen_urls, new_count, feed_left, entry>>
scraper_vars == <<scraper_store, scraper_locals>>

conc_vars == <<ticks, crashes>>

vars == <<pc, clock, store, gen_locals, tick_locals, printed, scraper_vars, assigned,
          conc_vars>>

\* no tick process is followed statement by statement
NoTicks == ticks = <<>> /\ crashes = 0

(***************************************************************************)
(* Files.                                                                  *)
(***************************************************************************)
FileExists(dir, name) == \E f \in dir : f.name = name

ReadFile(dir, name) == (CHOOSE f \in dir : f.name = name).body

\* a write that leaves a file that is there as it is: the first writer wins
WriteFile_keep_first(dir, name, body) ==
    IF FileExists(dir, name) THEN dir ELSE dir \cup {[name |-> name, body |-> body]}

WriteFile(dir, name, body) ==
    {f \in dir : f.name # name} \cup {[name |-> name, body |-> body]}

\* a removal that leaves the file where it is
RemoveFile_keep(dir, name) == dir

RemoveFile(dir, name) == {f \in dir : f.name # name}

\* the content of a manifest or index file that is not JSON
MalformedJson == <<[malformed |-> TRUE]>>

\* json.load(f) raises json.JSONDecodeError
Raises(file) == file = MalformedJson

\* what an uncaught exception leaves on the terminal
Traceback == <<"Traceback", "JSONDecodeError">>

(***************************************************************************)
(* news_emissions/: the archived items the generator reads.  A URL is      *)
(* <<"site", n>>, the empty string is <<>>.                                *)
(***************************************************************************)
BLOG_THRESHOLD == 70

\* the test that never ends the loop
BelowThreshold_never(score) == FALSE

\* "if score < BLOG_THRESHOLD"
BelowThreshold(score) == score < BLOG_THRESHOLD

NewsDir ==
    { [title |-> <<"A", "b", " ", "c">>,      source_url |-> <<"site", 1>>, score |-> 85, content_len |-> 500],
      [title |-> <<"a", "b", "_", "c", "!">>, source_url |-> <<"site", 2>>, score |-> 85, content_len |-> 500],
      [title |-> <<"!", "!", "!">>,           source_url |-> <<"site", 3>>, score |-> 90, content_len |-> 500],
      [title |-> <<"?", "!">>,                source_url |-> <<"site", 1>>, score |-> 75, content_len |-> 500],
      [title |-> <<"a", "b">>,                source_url |-> <<"site", 4>>, score |-> 80, content_len |-> 40],
      [title |-> <<" ", " ">>,                source_url |-> <<"site", 5>>, score |-> 95, content_len |-> 500],
      [title |-> <<"c", "d">>,                source_url |-> <<>>, score |-> 95, content_len |-> 500],
      [title |-> <<"d", "d">>,                source_url |-> <<"site", 6>>, score |-> 60, content_len |-> 500] }

\* str.strip() of the title
StripSpaces(s) == RStrip(LStrip(s, " "), " ")

\* the records as files of the directory
NewsFiles == {[name |-> a.title, body |-> a] : a \in NewsDir}

\* the text the generation call returns for an item; <<>> is the empty string
BodyOf(item) == <<"p", "o", "s", "t", " ">> \o item.title

\* no call of generate_blog_body was made
NoCall == <<"no call">>

\* what the call of the text model does: it raises (or no client is at hand),
\* or it answers with a text
Responses(item) ==
    { [ok |-> FALSE, text |-> <<>>],
      [ok |-> TRUE,  text |-> <<>>],
      [ok |-> TRUE,  text |-> <<" ", " ">>],
      [ok |-> TRUE,  text |-> <<" ">> \o BodyOf(item) \o <<" ">>] }

\* generate_blog_body: "" on an exception, else response.text.strip()
generate_blog_body(response) ==
    IF ~response.ok THEN <<>> ELSE StripSpaces(response.text)

\* the test that lets no body through
EmptyBody_never(body) == FALSE

\* "if not blog_body"
EmptyBody(body) == body = <<>>

(***************************************************************************)
(* Scheduled timestamps.  <<"none">> is JSON null, <<>> the empty string,  *)
(* <<"ts", t>> the text of minute t in the format '%Y-%m-%d %H:%M', and    *)
(* <<"ts", t, "sec">> the same text with seconds appended.                 *)
(***************************************************************************)
None == <<"none">>

ScheduledValues ==
    {None, <<>>} \cup {<<"ts", t>> : t \in 1..MaxTime} \cup {<<"ts", 1, "sec">>}

\* "if not scheduled"
Unscheduled(scheduled) == scheduled = None \/ scheduled = <<>>

\* a parser that reads the timestamp and ignores what follows it
Parseable_lenient(scheduled) == Len(scheduled) >= 2 /\ scheduled[1] = "ts"

\* datetime.strptime(scheduled, "%Y-%m-%d %H:%M") succeeds
Parseable(scheduled) == Len(scheduled) = 2 /\ scheduled[1] = "ts"

strptime(scheduled) == scheduled[2]

\* the test of main that sends a draft to publish
IsDue(t, scheduled) ==
    /\ ~Unscheduled(scheduled)
    /\ Parseable(scheduled)
    /\ t >= strptime(scheduled)

(***************************************************************************)
(* emissions_blog_generator.py                                             *)
(***************************************************************************)
ManifestUrls(posts) ==
    {posts[i].source_url : i \in {j \in DOMAIN posts : posts[j].source_url # <<>>}}

\* the URLs of the draft manifest only
get_existing_urls_drafts_only == ManifestUrls(blog_drafts)

get_existing_urls == ManifestUrls(blog_drafts) \cup ManifestUrls(blog_json)

ManifestSlugs(posts) ==
    {posts[i].slug : i \in {j \in DOMAIN posts : posts[j].slug # <<>>}}

get_existing_slugs == ManifestSlugs(blog_drafts) \cup ManifestSlugs(blog_json)

DraftEntry(item, slug) ==
    [slug       |-> slug,
     title      |-> item.title,
     source_url |-> item.source_url,
     score      |-> item.score,
     scheduled  |-> None]

MaxScore(items) == CHOOSE m \in {a.score : a \in items} : \A a \in items : a.score <= m

GenIdle ==
    /\ existing_urls' = {}
    /\ existing_slugs' = {}
    /\ articles' = {}
    /\ new_drafts' = 0
    /\ blog_body' = NoCall
    /\ UNCHANGED no_push

\* news_dir is the archive of the scraper that is followed: news_emissions/,
\* which the generator reads, with the emissions scraper, and news_hydrogen/,
\* which leaves news_emissions/ empty, with the hydrogen scraper
GenStart ==
    /\ pc = "idle"
    /\ ~Raises(blog_drafts)
    /\ ~Raises(blog_json)
    /\ Len(blog_drafts) + Len(blog_json) < MaxPosts
    /\ pc' = "gen"
    /\ existing_urls' = get_existing_urls
    /\ existing_slugs' = get_existing_slugs
    /\ articles' = IF which = "emissions" THEN {f.body : f \in news_dir} ELSE {}
    /\ new_drafts' = 0
    /\ blog_body' = NoCall
    /\ UNCHANGED no_push
    /\ printed' = <<>>
    /\ UNCHANGED <<clock, store, tick_locals, scraper_vars, assigned, conc_vars>>

\* load_json raises in get_existing_urls: the run ends with the exception
GenCrash ==
    /\ pc = "idle"
    /\ Raises(blog_drafts) \/ Raises(blog_json)
    /\ printed' = Traceback
    /\ UNCHANGED <<pc, clock, store, gen_locals, tick_locals, scraper_vars, assigned, conc_vars>>

\* one pass of "for item in articles" that ends in a continue
GenSkip ==
    /\ pc = "gen"
    /\ \E item \in articles :
         /\ item.score = MaxScore(articles)
         /\ ~BelowThreshold(item.score)
         /\ \/ StripSpaces(item.title) = <<>>
            \/ item.source_url = <<>>
            \/ item.source_url \in existing_urls
            \/ item.content_len < 100
         /\ printed' = IF StripSpaces(item.title) = <<>> \/ item.source_url = <<>>
                       THEN <<>>
                       ELSE IF item.source_url \in existing_urls
                            THEN <<"Skip (already drafted)", item.source_url>>
                            ELSE <<"Skip (too short)", item.source_url>>
         /\ articles' = articles \ {item}
    /\ blog_body' = NoCall
    /\ UNCHANGED <<pc, clock, store, tick_locals, scraper_vars, assigned, conc_vars,
                   existing_urls, existing_slugs, new_drafts, no_push>>

\* one pass in which generate_blog_body fails or returns the empty string
GenFail ==
    /\ pc = "gen"
    /\ \E item \in articles :
         /\ item.score = MaxScore(articles)
         /\ ~BelowThreshold(item.score)
         /\ StripSpaces(item.title) # <<>>
         /\ item.source_url # <<>>
         /\ item.source_url \notin existing_urls
         /\ item.content_len >= 100
         /\ \E response \in Responses(item) :
              /\ blog_body' = generate_blog_body(response)
              /\ EmptyBody(blog_body')
         /\ printed' = <<"BLOG", item.source_url>>
         /\ articles' = articles \ {item}
    /\ UNCHANGED <<pc, clock, store, tick_locals, scraper_vars, assigned, conc_vars,
                   existing_urls, existing_slugs, new_drafts, no_push>>

\* one pass that writes a draft
GenDraft ==
    /\ pc = "gen"
    /\ \E item \in articles :
         /\ item.score = MaxScore(articles)
         /\ ~BelowThreshold(item.score)
         /\ StripSpaces(item.title) # <<>>
         /\ item.source_url # <<>>
         /\ item.source_url \notin existing_urls
         /\ item.content_len >= 100
         /\ \E response \in Responses(item) :
              /\ blog_body' = generate_blog_body(response)
              /\ ~EmptyBody(blog_body')
         /\ LET title == StripSpaces(item.title)
                slug  == make_unique_slug(slugify(title), existing_slugs)
            IN  /\ existing_slugs' = existing_slugs \cup {slug}
                /\ existing_urls' = existing_urls \cup {item.source_url}
                /\ drafts_dir' = WriteFile(drafts_dir, slug, blog_body')
                /\ blog_drafts' = Append(blog_drafts, DraftEntry(item, slug))
                /\ sync_log' = IF no_push THEN sync_log
                               ELSE Append(sync_log, <<"draft", slug>>)
                /\ printed' = <<"Draft saved", slug>>
         /\ articles' = articles \ {item}
         /\ new_drafts' = new_drafts + 1
    /\ UNCHANGED <<pc, clock, blog_json, posts_dir, no_push, tick_locals, scraper_vars, assigned, conc_vars>>

\* the loop ends: no item left, or the break at the first score below the threshold
GenEnd ==
    /\ pc = "gen"
    /\ IF articles = {} THEN TRUE ELSE BelowThreshold(MaxScore(articles))
    /\ pc' = "idle"
    /\ GenIdle
    /\ printed' = <<>>
    /\ UNCHANGED <<clock, store, tick_locals, scraper_vars, assigned, conc_vars>>

(***************************************************************************)
(* The editor sets or clears the scheduled field of a draft.               *)
(***************************************************************************)
SetScheduled ==
    /\ pc = "idle"
    /\ \E i \in DOMAIN blog_drafts, v \in ScheduledValues :
         /\ blog_drafts[i].scheduled # v
         /\ blog_drafts' = [blog_drafts EXCEPT ![i].scheduled = v]
    /\ UNCHANGED <<pc, clock, blog_json, drafts_dir, posts_dir, sync_log,
                   gen_locals, tick_locals, printed, scraper_vars, assigned, conc_vars>>

Advance ==
    /\ pc = "idle"
    /\ clock < MaxTime
    /\ clock' = clock + 1
    /\ UNCHANGED <<pc, store, gen_locals, tick_locals, printed, scraper_vars, assigned, conc_vars>>

(***************************************************************************)
(* check_scheduled_emissions.py                                            *)
(***************************************************************************)
\* an entry that does not carry the slug of the draft
PublishedEntry_no_slug(meta) ==
    [slug |-> <<>>, title |-> meta.title, source_url |-> meta.source_url]

PublishedEntry(meta) ==
    [slug |-> meta.slug, title |-> meta.title, source_url |-> meta.source_url]

\* the new entry put at the end of the list
InsertPost_tail(posts, post) == Append(posts, post)

\* the new entry put behind the first entry of the list
InsertPost_second(posts, post) ==
    IF posts = <<>> THEN <<post>> ELSE <<Head(posts), post>> \o Tail(posts)

\* published["posts"].insert(0, entry)
InsertPost(posts, post) == <<post>> \o posts

RemoveDraft(posts, slug) == SelectSeq(posts, LAMBDA p : p.slug # slug)

\* publish with the test for the content file made after the manifest update
publish_late_check(meta) ==
    [ok          |-> FileExists(drafts_dir, meta.slug),
     posts_dir   |-> IF FileExists(drafts_dir, meta.slug)
                     THEN WriteFile(posts_dir, meta.slug, ReadFile(drafts_dir, meta.slug))
                     ELSE posts_dir,
     drafts_dir  |-> RemoveFile(drafts_dir, meta.slug),
     blog_json   |-> InsertPost(blog_json, PublishedEntry(meta)),
     blog_drafts |-> RemoveDraft(blog_drafts, meta.slug)]

\* publish(meta): its return value and the files it leaves
publish(meta) ==
    IF ~FileExists(drafts_dir, meta.slug)
    THEN [ok          |-> FALSE,
          posts_dir   |-> posts_dir,
          drafts_dir  |-> drafts_dir,
          blog_json   |-> blog_json,
          blog_drafts |-> blog_drafts]
    ELSE [ok          |-> TRUE,
          posts_dir   |-> WriteFile(posts_dir, meta.slug, ReadFile(drafts_dir, meta.slug)),
          drafts_dir  |-> RemoveFile(drafts_dir, meta.slug),
          blog_json   |-> InsertPost(blog_json, PublishedEntry(meta)),
          blog_drafts |-> RemoveDraft(blog_drafts, meta.slug)]

\* the files after a call of publish
Published(r) ==
    /\ posts_dir' = r.posts_dir
    /\ drafts_dir' = r.drafts_dir
    /\ blog_json' = r.blog_json
    /\ blog_drafts' = r.blog_drafts

TickIdle ==
    /\ now' = 0
    /\ todo' = <<>>
    /\ published_any' = FALSE

TickStart ==
    /\ pc = "idle"
    /\ ~Raises(blog_drafts)
    /\ pc' = "tick"
    /\ now' = clock
    /\ todo' = blog_drafts
    /\ published_any' = FALSE
    /\ printed' = <<>>
    /\ UNCHANGED <<clock, store, gen_locals, scraper_vars, assigned, conc_vars>>

\* load_json raises in main: the tick ends with the exception
TickCrash ==
    /\ pc = "idle"
    /\ Raises(blog_drafts)
    /\ printed' = Traceback
    /\ UNCHANGED <<pc, clock, store, gen_locals, tick_locals, scraper_vars, assigned, conc_vars>>

\* a pass of the loop of main that does not call publish
TickSkip ==
    /\ pc = "tick"
    /\ todo # <<>>
    /\ ~IsDue(now, Head(todo).scheduled)
    /\ todo' = Tail(todo)
    /\ printed' = <<>>
    /\ UNCHANGED <<pc, clock, store, gen_locals, now, published_any, scraper_vars, assigned, conc_vars>>

\* publish returns False: the content file is missing
TickNoFile ==
    /\ pc = "tick"
    /\ todo # <<>>
    /\ IsDue(now, Head(todo).scheduled)
    /\ ~publish(Head(todo)).ok
    /\ Published(publish(Head(todo)))
    /\ todo' = Tail(todo)
    /\ printed' = <<"SKIP (no .md file)", Head(todo).slug>>
    /\ UNCHANGED <<pc, clock, sync_log, gen_locals, now, published_any, scraper_vars, assigned, conc_vars>>

\* publish returns True, then git_push
TickPublish ==
    /\ pc = "tick"
    /\ todo # <<>>
    /\ ~Raises(blog_json)
    /\ LET meta == Head(todo)
       IN  /\ IsDue(now, meta.scheduled)
           /\ publish(meta).ok
           /\ Published(publish(meta))
           /\ sync_log' = Append(sync_log, <<"publish", meta.slug>>)
           /\ printed' = <<"Pushed", meta.slug>>
    /\ published_any' = TRUE
    /\ todo' = Tail(todo)
    /\ UNCHANGED <<pc, clock, gen_locals, now, scraper_vars, assigned, conc_vars>>

\* load_json(BLOG_JSON) raises in publish, behind the move of the content
\* file: the tick ends with the exception
TickPublishCrash ==
    /\ pc = "tick"
    /\ todo # <<>>
    /\ Raises(blog_json)
    /\ LET meta == Head(todo)
       IN  /\ IsDue(now, meta.scheduled)
           /\ FileExists(drafts_dir, meta.slug)
           /\ posts_dir' = WriteFile(posts_dir, meta.slug, ReadFile(drafts_dir, meta.slug))
           /\ drafts_dir' = RemoveFile(drafts_dir, meta.slug)
    /\ pc' = "idle"
    /\ TickIdle
    /\ printed' = Traceback
    /\ UNCHANGED <<clock, blog_drafts, blog_json, sync_log, gen_locals, scraper_vars, assigned, conc_vars>>

TickEnd ==
    /\ pc = "tick"
    /\ todo = <<>>
    /\ pc' = "idle"
    /\ TickIdle
    /\ printed' = <<>>
    /\ UNCHANGED <<clock, store, gen_locals, scraper_vars, assigned, conc_vars>>

\* a feed entry together with what the article extractor returns for it
NoEntry == [kw |-> FALSE, link |-> <<>>, title |-> <<>>, text_len |-> 0, score |-> 0, ok |-> FALSE]

ScraperIdle ==
    /\ news_index = <<>>
    /\ seen_urls = {}
    /\ new_count = 0
    /\ feed_left = 0
    /\ entry = NoEntry

\* no scraper has run and none runs
ScraperEmpty ==
    /\ ScraperIdle
    /\ news_json = <<>>
    /\ news_dir = {}
    /\ pushes = 0
    /\ which = "emissions"

(***************************************************************************)
(* The draft lifecycle: generator runs, scheduling and ticks, one process  *)
(* at a time, starting from a site without posts and an archive of news    *)
(* items.                                                                  *)
(***************************************************************************)
Init ==
    /\ pc = "idle"
    /\ clock = 1
    /\ blog_drafts = <<>>
    /\ blog_json = <<>>
    /\ drafts_dir = {}
    /\ posts_dir = {}
    /\ sync_log = <<>>
    /\ existing_urls = {}
    /\ existing_slugs = {}
    /\ articles = {}
    /\ new_drafts = 0
    /\ no_push \in BOOLEAN
    /\ blog_body = NoCall
    /\ now = 0
    /\ todo = <<>>
    /\ published_any = FALSE
    /\ printed = <<>>
    /\ ScraperIdle
    /\ news_json = <<>>
    /\ news_dir = NewsFiles
    /\ pushes = 0
    /\ which = "emissions"
    /\ assigned = <<>>
    /\ NoTicks

Next ==
    \/ GenStart
    \/ GenSkip
    \/ GenFail
    \/ GenDraft
    \/ GenEnd
    \/ SetScheduled
    \/ Advance
    \/ TickStart
    \/ TickSkip
    \/ TickNoFile
    \/ TickPublish
    \/ TickEnd

Spec == Init /\ [][Next]_vars

(***************************************************************************)
(* The tick on its own, over the manifests and directories it may find:    *)
(* drafts with and without a content file, every form of the scheduled     *)
(* field, an empty or a non-empty published manifest.                      *)
(***************************************************************************)
TickSlugs == {<<"a">>, <<"b">>}

TickUrl(slug) == IF slug = <<"a">> THEN <<"site", 1>> ELSE <<>>

TickEntries ==
    { [slug |-> sl, title |-> <<"T">> \o sl, source_url |-> TickUrl(sl),
       score |-> 85, scheduled |-> v] : sl \in TickSlugs, v \in ScheduledValues }

SeqsUpTo(S, n) == UNION {[1..k -> S] : k \in 0..n}

OldPost == [slug |-> <<"o">>, title |-> <<"T", "o">>, source_url |-> <<"site", 0>>]

InitTick ==
    /\ pc = "idle"
    /\ clock \in 1..MaxTime
    /\ blog_drafts \in SeqsUpTo(TickEntries, MaxDrafts)
    /\ blog_json \in {<<>>, <<OldPost>>}
    /\ drafts_dir \in SUBSET {[name |-> sl, body |-> <<"post", sl>>] : sl \in TickSlugs}
    /\ posts_dir = {[name |-> blog_json[i].slug, body |-> <<"post", blog_json[i].slug>>] :
                       i \in DOMAIN blog_json}
    /\ sync_log = <<>>
    /\ existing_urls = {}
    /\ existing_slugs = {}
    /\ articles = {}
    /\ new_drafts = 0
    /\ no_push = FALSE
    /\ blog_body = NoCall
    /\ now = 0
    /\ todo = <<>>
    /\ published_any = FALSE
    /\ printed = <<>>
    /\ ScraperEmpty
    /\ assigned = <<>>
    /\ NoTicks

NextTick ==
    \/ TickStart
    \/ TickSkip
    \/ TickNoFile
    \/ TickPublish
    \/ TickEnd
    \/ Advance

SpecTick == InitTick /\ [][NextTick]_vars

(***************************************************************************)
(* Properties of the publish tick.                                         *)
(***************************************************************************)
\* the scheduled field holds a well-formed timestamp that is not later than t
DueAt(meta, t) == \E u \in 1..t : meta.scheduled = <<"ts", u>>

\* the scheduled field is unset (null or empty) or a timestamp strictly later than t
NotYetDue(meta, t) ==
    \/ meta.scheduled = None
    \/ meta.scheduled = <<>>
    \/ \E u \in (t + 1)..(MaxTime + 1) : meta.scheduled = <<"ts", u>>

HasSlug(posts, slug) == \E i \in DOMAIN posts : posts[i].slug = slug

\* C1: when the tick reaches a draft that is due (now >= scheduled) and whose
\* drafts-area file exists, its pass puts exactly one new entry with that slug
\* at the head of the published manifest, leaves no entry with that slug in the
\* draft manifest, removes the drafts-area file and creates the published-area
\* file with the same content.
C1_DuePublished ==
    [][ (pc = "tick" /\ todo # <<>> /\ DueAt(Head(todo), now)
            /\ FileExists(drafts_dir, Head(todo).slug))
        => LET slug == Head(todo).slug
           IN  /\ blog_json' # <<>>
               /\ Head(blog_json').slug = slug
               /\ Tail(blog_json') = blog_json
               /\ ~HasSlug(blog_drafts', slug)
               /\ ~FileExists(drafts_dir', slug)
               /\ FileExists(posts_dir', slug)
               /\ ReadFile(posts_dir', slug) = ReadFile(drafts_dir, slug) ]_vars

C1_Witness ==
    /\ pc = "tick"
    /\ Len(printed) = 2
    /\ printed[1] = "Pushed"
    /\ Len(blog_json) >= 2
    /\ Head(blog_json).slug = printed[2]
    /\ FileExists(posts_dir, printed[2])
    /\ ~FileExists(drafts_dir, printed[2])

\* C2: when the tick reaches a due draft whose drafts-area file is missing,
\* publish fails and nothing changes: both manifests, both directories and the
\* log of sync calls are as before, and the flag published_any is not set.
C2_MissingFileNoChange ==
    [][ (pc = "tick" /\ todo # <<>> /\ DueAt(Head(todo), now)
            /\ ~FileExists(drafts_dir, Head(todo).slug))
        => /\ blog_json' = blog_json
           /\ blog_drafts' = blog_drafts
           /\ HasSlug(blog_drafts, Head(todo).slug) => HasSlug(blog_drafts', Head(todo).slug)
           /\ posts_dir' = posts_dir
           /\ drafts_dir' = drafts_dir
           /\ sync_log' = sync_log
           /\ published_any' = published_any ]_vars

C2_Witness ==
    /\ pc = "tick"
    /\ Len(printed) = 2
    /\ printed[1] = "SKIP (no .md file)"
    /\ HasSlug(blog_drafts, printed[2])
    /\ ~FileExists(posts_dir, printed[2])
    /\ ~HasSlug(blog_json, printed[2])

\* C3: during a tick, a draft of the draft manifest whose scheduled field is
\* unset or strictly later than the tick's now stays in the draft manifest,
\* keeps its drafts-area file, and the published manifest gains no entry with
\* its slug.
C3_NotDueUntouched ==
    [][ pc = "tick"
        => \A i \in DOMAIN blog_drafts :
             NotYetDue(blog_drafts[i], now)
             => /\ \E j \in DOMAIN blog_drafts' : blog_drafts'[j] = blog_drafts[i]
                /\ FileExists(drafts_dir, blog_drafts[i].slug)
                      => FileExists(drafts_dir', blog_drafts[i].slug)
                /\ HasSlug(blog_json', blog_drafts[i].slug)
                      => HasSlug(blog_json, blog_drafts[i].slug) ]_vars

(***************************************************************************)
(* Properties of the manifests.                                            *)
(***************************************************************************)
AllPosts == blog_drafts \o blog_json

\* C7: at every moment at most one entry across the draft manifest and the
\* published manifest carries a given source URL.
C7_OneEntryPerUrl ==
    \A i, j \in DOMAIN AllPosts :
        (AllPosts[i].source_url = AllPosts[j].source_url /\ AllPosts[i].source_url # <<>>)
        => i = j

C7_Witness ==
    /\ pc = "gen"
    /\ printed = <<"Skip (already drafted)", <<"site", 1>>>>
    /\ \E i \in DOMAIN blog_json : blog_json[i].source_url = <<"site", 1>>
    /\ \E i \in DOMAIN blog_drafts : blog_drafts[i].source_url = <<"site", 2>>

\* C8: every slug occurs at most once in the concatenation of the draft
\* manifest and the published manifest.
C8_SlugsUnique ==
    \A i, j \in DOMAIN AllPosts : AllPosts[i].slug = AllPosts[j].slug => i = j

(***************************************************************************)
(* The slug assignment of one generator run, lines 329-331 of main, fed    *)
(* with titles that all slugify to the same base slug.                     *)
(***************************************************************************)
SlugTitles ==
    { <<"a">>,
      <<"A", "b", " ", "c">>,
      <<"a", "b", "_", "c", "!">>,
      <<"!", "!", "!">>,
      <<"?", "!">>,
      Rep("a", 56),
      Rep("a", 57),
      Rep("a", 58),
      Rep("a", 59) \o <<" ", "b">>,
      Rep("a", 60),
      Rep("a", 61) }

InitSlug ==
    /\ pc = "gen"
    /\ clock = 1
    /\ blog_drafts = <<>>
    /\ blog_json = <<>>
    /\ drafts_dir = {}
    /\ posts_dir = {}
    /\ sync_log = <<>>
    /\ existing_urls = {}
    /\ existing_slugs = {}
    /\ articles = {}
    /\ new_drafts = 0
    /\ no_push = FALSE
    /\ blog_body = NoCall
    /\ now = 0
    /\ todo = <<>>
    /\ published_any = FALSE
    /\ printed = <<>>
    /\ ScraperEmpty
    /\ assigned = <<>>
    /\ NoTicks

SlugDraft ==
    /\ pc = "gen"
    /\ Len(assigned) < MaxSlugs
    /\ \E title \in SlugTitles :
         /\ assigned # <<>> => slugify(title) = Head(assigned)
         /\ LET slug == make_unique_slug(slugify(title), existing_slugs)
            IN  /\ existing_slugs' = existing_slugs \cup {slug}
                /\ assigned' = Append(assigned, slug)
    /\ UNCHANGED <<pc, clock, store, existing_urls, articles, new_drafts, no_push,
                   blog_body, tick_locals, printed, scraper_vars, conc_vars>>

NextSlug == SlugDraft

SpecSlug == InitSlug /\ [][NextSlug]_vars

C10_SlugAtMost60 ==
    \A k \in DOMAIN assigned : Len(assigned[k]) <= 60

(***************************************************************************)
(* emissions_news_scraper.py and hydrogen_news_scraper.py                  *)
(*                                                                         *)
(* A URL is <<"site", n>>; <<"google", n>> is the redirect link of the     *)
(* alert feed that wraps <<"site", n>> in its query parameter "url".       *)
(***************************************************************************)
IndexCap == 50

\* emissions_news_scraper.resolve_url
resolve_url(link) ==
    IF link[1] = "google" THEN <<"site", link[2]>> ELSE link

\* the URL the scraper fetches and stores as source_url
real_url(w, link) == IF w = "emissions" THEN resolve_url(link) ELSE link

\* the dedup test that skips nothing
IsKnown_none(w, link, seen) == FALSE

\* the negation of the dedup test of the loop
IsKnown(w, link, seen) ==
    IF w = "emissions"
    THEN resolve_url(link) \in seen \/ link \in seen
    ELSE link \in seen

\* c.isalnum()
IsAlnum(c) == c \in LowerLetters \cup UpperLetters \cup DigitChars

\* slugify of the scrapers: the file name of an archive record
slugify_news(text) ==
    LET dashed   == [i \in 1..Len(text) |-> IF IsAlnum(Lower(text[i])) THEN Lower(text[i]) ELSE "-"]
        stripped == RStrip(LStrip(dashed, "-"), "-")
    IN  Take(stripped, 50)

NewsItem(w, e, day) ==
    [title      |-> e.title,
     source_url |-> real_url(w, e.link),
     date       |-> day,
     score      |-> e.score,
     content_len |-> e.text_len]

\* the sort key (date, score) of a ranks before or with that of b
KeyGE(a, b) == a.date > b.date \/ (a.date = b.date /\ a.score >= b.score)

\* how many items of a sorted list rank before or with x: the scan runs
\* from position k towards the head and stops at the first such item
RECURSIVE RankOf(_, _, _)
RankOf(sorted, x, k) ==
    IF k = 0 \/ KeyGE(sorted[k], x) THEN k ELSE RankOf(sorted, x, k - 1)

\* x put behind the items of a sorted list that rank before or with it
InsertDesc(sorted, x) ==
    LET k == RankOf(sorted, x, Len(sorted))
    IN  IF k = Len(sorted)
        THEN Append(sorted, x)
        ELSE SubSeq(sorted, 1, k) \o <<x>> \o SubSeq(sorted, k + 1, Len(sorted))

\* the items index[k], index[k+1], ... put one by one into a sorted list
RECURSIVE SortInto(_, _, _)
SortInto(sorted, index, k) ==
    IF k > Len(index) \/ Len(sorted) < 0
    THEN sorted
    ELSE SortInto(InsertDesc(sorted, index[k]), index, k + 1)

\* news_index.sort(key=(date, score), reverse=True): descending and stable
SortIndex(index) == SortInto(<<>>, index, 1)

\* the list written without the sort
Flush_unsorted(index) == Take(index, IndexCap)

\* the list cut one entry late
Flush_cut_late(index) == Take(SortIndex(index), IndexCap + 1)

\* the list cut at the wrong end: the 50 entries that rank lowest
Flush_tail(index) ==
    SubSeq(SortIndex(index), Len(index) - Min(Len(index), IndexCap) + 1, Len(index))

\* the list written to the index file: sorted and cut to the cap
Flush(index) == Take(SortIndex(index), IndexCap)

IndexUrls(index) == {index[i].source_url : i \in DOMAIN index}

\* the feed entries a run may meet
FeedEntries ==
    { [kw |-> TRUE,  link |-> <<"site", 1>>,   title |-> <<"A", "b", " ", "c">>, text_len |-> 500, score |-> 85, ok |-> TRUE],
      [kw |-> TRUE,  link |-> <<"google", 1>>, title |-> <<"A", "b", " ", "c">>, text_len |-> 500, score |-> 85, ok |-> TRUE],
      [kw |-> TRUE,  link |-> <<"site", 2>>,   title |-> <<"a", "b", "!", "c">>, text_len |-> 500, score |-> 40, ok |-> TRUE],
      [kw |-> TRUE,  link |-> <<"site", 3>>,   title |-> <<"c", "d">>,           text_len |-> 500, score |-> 75, ok |-> TRUE],
      [kw |-> TRUE,  link |-> <<"site", 101>>, title |-> <<"f", "1">>,           text_len |-> 500, score |-> 69, ok |-> TRUE],
      [kw |-> TRUE,  link |-> <<"site", 4>>,   title |-> <<"d">>,                text_len |-> 500, score |-> 5,  ok |-> TRUE],
      [kw |-> TRUE,  link |-> <<"site", 5>>,   title |-> <<"d", "a">>,           text_len |-> 50,  score |-> 30, ok |-> TRUE],
      [kw |-> TRUE,  link |-> <<"site", 6>>,   title |-> <<>>,                   text_len |-> 0,   score |-> 0,  ok |-> FALSE],
      [kw |-> FALSE, link |-> <<"site", 7>>,   title |-> <<"b">>,                text_len |-> 500, score |-> 30, ok |-> TRUE] }

\* the index file loaded under try/except: [] for a file that is not JSON
load_index(file) == IF Raises(file) THEN <<>> ELSE file

ScrapeStart ==
    /\ pc = "idle"
    /\ pc' = "scrape"
    /\ news_index' = load_index(news_json)
    /\ seen_urls' = IndexUrls(load_index(news_json))
    /\ new_count' = 0
    /\ feed_left' = MaxFeed
    /\ entry' = NoEntry
    /\ printed' = <<>>
    /\ UNCHANGED <<clock, store, gen_locals, tick_locals, scraper_store, assigned, conc_vars>>

\* a feed entry that leaves no trace: no keyword in its title, or a known URL
ScrapePass ==
    /\ pc = "scrape"
    /\ feed_left > 0
    /\ \E e \in FeedEntries :
         /\ ~e.kw \/ IsKnown(which, e.link, seen_urls)
         /\ entry' = e
    /\ feed_left' = feed_left - 1
    /\ printed' = <<>>
    /\ UNCHANGED <<pc, clock, store, gen_locals, tick_locals, scraper_store, assigned, conc_vars,
                   news_index, seen_urls, new_count>>

\* a new entry that is dropped: the fetch fails, the article is empty or short,
\* or its score is below 10
ScrapeReject ==
    /\ pc = "scrape"
    /\ feed_left > 0
    /\ \E e \in FeedEntries :
         /\ e.kw
         /\ ~IsKnown(which, e.link, seen_urls)
         /\ \/ ~e.ok /\ printed' = <<"Error processing", e.link>>
            \/ e.ok /\ (e.title = <<>> \/ e.text_len < 100)
                    /\ printed' = <<"Skipped (empty/short)", e.link>>
            \/ e.ok /\ e.title # <<>> /\ e.text_len >= 100 /\ e.score < 10
                    /\ printed' = <<"Skipped (low score)", e.link>>
         /\ entry' = e
    /\ feed_left' = feed_left - 1
    /\ UNCHANGED <<pc, clock, store, gen_locals, tick_locals, scraper_store, assigned, conc_vars,
                   news_index, seen_urls, new_count>>

\* a new entry that is archived
ScrapeArchive ==
    /\ pc = "scrape"
    /\ feed_left > 0
    /\ \E e \in FeedEntries :
         /\ e.kw
         /\ ~IsKnown(which, e.link, seen_urls)
         /\ e.ok /\ e.title # <<>> /\ e.text_len >= 100 /\ e.score >= 10
         /\ LET news_item == NewsItem(which, e, clock)
            IN  /\ news_dir' = WriteFile(news_dir, slugify_news(e.title), news_item)
                /\ news_index' = <<news_item>> \o news_index
                /\ seen_urls' = seen_urls \cup {real_url(which, e.link)}
                /\ printed' = <<"Archived", slugify_news(e.title)>>
         /\ entry' = e
    /\ new_count' = new_count + 1
    /\ feed_left' = feed_left - 1
    /\ UNCHANGED <<pc, clock, store, gen_locals, tick_locals, assigned, conc_vars,
                   news_json, pushes, which>>

\* the test that always sends the run to the flush
HasNews_always(n) == TRUE

\* "if new_count > 0"
HasNews(n) == n > 0

\* the feeds are exhausted and something was archived: flush, then push_to_github
ScrapeFlush ==
    /\ pc = "scrape"
    /\ HasNews(new_count)
    /\ news_json' = Flush(news_index)
    /\ pushes' = pushes + 1
    /\ printed' = <<"Index updated", new_count>>
    /\ pc' = "idle"
    /\ news_index' = <<>>
    /\ seen_urls' = {}
    /\ new_count' = 0
    /\ feed_left' = 0
    /\ entry' = NoEntry
    /\ UNCHANGED <<clock, store, gen_locals, tick_locals, assigned, conc_vars, news_dir, which>>

\* the feeds are exhausted and nothing was archived
ScrapeNoNews ==
    /\ pc = "scrape"
    /\ ~HasNews(new_count)
    /\ printed' = <<"No new news found.">>
    /\ pc' = "idle"
    /\ news_index' = <<>>
    /\ seen_urls' = {}
    /\ new_count' = 0
    /\ feed_left' = 0
    /\ entry' = NoEntry
    /\ UNCHANGED <<clock, store, gen_locals, tick_locals, assigned, conc_vars, scraper_store>>

(***************************************************************************)
(* The scrapers, started on an index file that earlier runs have left:     *)
(* empty, one below the cap, or at the cap.                                *)
(***************************************************************************)
FillerSizes == {0, 49, 50}

\* an index as a flush leaves it: at most 50 items, sorted by (date, score) descending
Filler(n) ==
    [i \in 1..n |->
        [title      |-> <<"f">> \o Str(i),
         source_url |-> <<"site", 100 + i>>,
         date       |-> 1,
         score      |-> 70 - i,
         content_len |-> 500]]

ManifestDraft ==
    [slug |-> <<"c", "d">>, title |-> <<"c", "d">>, source_url |-> <<"site", 3>>,
     score |-> 75, scheduled |-> None]

ManifestPost ==
    [slug |-> <<"o">>, title |-> <<"o">>, source_url |-> <<"site", 8>>]

InitScraper ==
    /\ pc = "idle"
    /\ clock = 1
    /\ blog_drafts = <<ManifestDraft>>
    /\ blog_json = <<ManifestPost>>
    /\ drafts_dir = {[name |-> <<"c", "d">>, body |-> <<"post", <<"site", 3>>>>]}
    /\ posts_dir = {[name |-> <<"o">>, body |-> <<"post", <<"site", 8>>>>]}
    /\ sync_log = <<>>
    /\ existing_urls = {}
    /\ existing_slugs = {}
    /\ articles = {}
    /\ new_drafts = 0
    /\ no_push = FALSE
    /\ blog_body = NoCall
    /\ now = 0
    /\ todo = <<>>
    /\ published_any = FALSE
    /\ printed = <<>>
    /\ ScraperIdle
    /\ which \in {"emissions", "hydrogen"}
    /\ \E n \in FillerSizes :
         /\ news_json = Filler(n)
         /\ news_dir = {[name |-> slugify_news(Filler(n)[i].title), body |-> Filler(n)[i]] :
                           i \in 1..n}
    /\ pushes = 0
    /\ assigned = <<>>
    /\ NoTicks

NextScraper ==
    \/ ScrapeStart
    \/ ScrapePass
    \/ ScrapeReject
    \/ ScrapeArchive
    \/ ScrapeFlush
    \/ ScrapeNoNews
    \/ Advance

SpecScraper == InitScraper /\ [][NextScraper]_vars

(***************************************************************************)
(* Properties of the rolling index.                                        *)
(***************************************************************************)
\* C4: the index file written by a run that archived at least one item has at
\* most 50 entries, and each entry has a later date than the next one, or the
\* same date and a score that is not lower.
C4_FlushedIndexSortedCapped ==
    [][ (pc = "scrape" /\ new_count > 0 /\ pc' = "idle")
        => /\ Len(news_json') <= 50
           /\ \A i \in 1..(Len(news_json') - 1) :
                \/ news_json'[i].date > news_json'[i + 1].date
                \/ /\ news_json'[i].date = news_json'[i + 1].date
                   /\ news_json'[i].score >= news_json'[i + 1].score ]_vars

C4_Witness ==
    /\ pc = "idle"
    /\ printed = <<"Index updated", 2>>
    /\ Len(news_json) = 50
    /\ \E i \in 3..50 : news_json[i].source_url = <<"site", 2>>
    /\ \E i \in 1..2 : news_json[i].source_url = <<"site", 1>>

\* C5 as claimed: neither the index in memory nor the index file ever holds
\* more than 50 entries.
C5_NeverOverCap ==
    /\ Len(news_index) <= 50
    /\ Len(news_json) <= 50

\* C5 amended: the index file never holds more than 50 entries; the index in
\* memory holds at most 50 plus the number of items archived in the run.
C5_FileWithinCap ==
    /\ Len(news_json) <= 50
    /\ Len(news_index) <= 50 + new_count

C5_Witness ==
    /\ pc = "scrape"
    /\ Len(news_index) = 52
    /\ Len(news_json) = 50

\* the source URLs of the index in memory and of both manifests
KnownUrls ==
    {news_index[i].source_url : i \in DOMAIN news_index}
        \cup {blog_drafts[i].source_url : i \in DOMAIN blog_drafts}
        \cup {blog_json[i].source_url : i \in DOMAIN blog_json}

MaxRepeat == 10

SCORE_WEIGHTS(w) ==
    IF w = "emissions"
    THEN << [keyword |-> <<"E", "U", "-", "E", "T", "S">>, weight |-> 15],
            [keyword |-> <<"E", "T", "S">>, weight |-> 10],
            [keyword |-> <<"C", "I", "I">>, weight |-> 12],
            [keyword |-> <<"C", "O", "2">>, weight |-> 5],
            [keyword |-> <<"_", "t", "i", "t", "l", "e", "_", "m", "u", "l", "t", "i", "p", "l", "i", "e", "r">>, weight |-> 2] >>
    ELSE << [keyword |-> <<"l", "h", "2">>, weight |-> 20],
            [keyword |-> <<"h", "2">>, weight |-> 10],
            [keyword |-> <<"C", "M", "B">>, weight |-> 8],
            [keyword |-> <<"_", "t", "i", "t", "l", "e", "_", "m", "u", "l", "t", "i", "p", "l", "i", "e", "r">>, weight |-> 2] >>

\* SCORE_WEIGHTS.get('_title_multiplier', 2)
title_multiplier(w) ==
    LET hits == {i \in DOMAIN SCORE_WEIGHTS(w) :
                    SCORE_WEIGHTS(w)[i].keyword = <<"_", "t", "i", "t", "l", "e", "_", "m", "u", "l", "t", "i", "p", "l", "i", "e", "r">>}
    IN  IF hits = {} THEN 2 ELSE SCORE_WEIGHTS(w)[CHOOSE i \in hits : TRUE].weight

\* str.lower()
LowerText(text) == [i \in 1..Len(text) |-> Lower(text[i])]

\* text[i:].count(sub) added to n: the occurrences counted from the left,
\* the search going on behind each occurrence found
RECURSIVE CountFrom(_, _, _, _)
CountFrom(text, sub, i, n) ==
    IF i + Len(sub) - 1 > Len(text)
    THEN n
    ELSE IF SubSeq(text, i, i + Len(sub) - 1) = sub
         THEN CountFrom(text, sub, i + Len(sub), n + 1)
         ELSE CountFrom(text, sub, i + 1, n)

\* text.count(sub)
Count(text, sub) == CountFrom(text, sub, 1, 0)

\* sub in text
Contains(text, sub) ==
    \E i \in 1..(Len(text) - Len(sub) + 1) : SubSeq(text, i, i + Len(sub) - 1) = sub

\* the occurrences counted without a cap
Capped_none(count) == count

\* min(count, 3)
Capped(count) == Min(count, 3)

\* what one pass of the loop over SCORE_WEIGHTS.items() adds to score
Contribution(w, item, title, content) ==
    LET title_lower   == LowerText(title)
        full_text     == title_lower \o <<" ">> \o LowerText(content)
        keyword_lower == LowerText(item.keyword)
        count         == Count(full_text, keyword_lower)
    IN  IF Head(item.keyword) = "_" THEN 0
        ELSE IF count > 0
             THEN item.weight * Capped(count)
                    + (IF Contains(title_lower, keyword_lower)
                       THEN item.weight * title_multiplier(w) ELSE 0)
             ELSE 0

RECURSIVE ScoreFrom(_, _, _, _, _)
ScoreFrom(w, title, content, k, score) ==
    IF k > Len(SCORE_WEIGHTS(w))
    THEN score
    ELSE ScoreFrom(w, title, content, k + 1,
                   score + Contribution(w, SCORE_WEIGHTS(w)[k], title, content))

calculate_score(w, title, content) == ScoreFrom(w, title, content, 1, 0)

\* the words a text is made of
ScoreWords ==
    { <<"e", "t", "s">>, <<"E", "U", "-", "E", "T", "S">>, <<"C", "o", "2">>, <<"c", "i", "i">>, <<"L", "H", "2">>, <<"h", "2">>, <<"c", "m", "b">>, <<"x">> }

\* word written n times, a space behind each
RECURSIVE Words(_, _)
Words(word, n) == IF n = 0 THEN <<>> ELSE word \o <<" ">> \o Words(word, n - 1)

ScoreTitles ==
    { <<>>, <<"E", "T", "S">>, <<"C", "o", "2", " ", "x">>, <<"l", "h", "2", " ", "C", "M", "B">>, <<"e", "u">>, <<"x", " ", "h", "2">> }

\* an article: its title and its text, word written n times
Articles ==
    { [kw |-> TRUE, link |-> <<"site", 1>>, title |-> t, word |-> wd, n |-> n,
       text |-> Words(wd, n), text_len |-> Len(Words(wd, n)), score |-> 0, ok |-> TRUE] :
         t \in ScoreTitles, wd \in ScoreWords, n \in 0..MaxRepeat }

\* score = calculate_score(article.title, article.text)
Score ==
    /\ pc = "score"
    /\ pc' = "scored"
    /\ entry' = [entry EXCEPT !.score = calculate_score(which, entry.title, entry.text)]
    /\ UNCHANGED <<clock, store, gen_locals, tick_locals, printed, scraper_store, assigned, conc_vars,
                   news_index, seen_urls, new_count, feed_left>>

InitScore ==
    /\ pc = "score"
    /\ clock = 1
    /\ blog_drafts = <<>>
    /\ blog_json = <<>>
    /\ drafts_dir = {}
    /\ posts_dir = {}
    /\ sync_log = <<>>
    /\ existing_urls = {}
    /\ existing_slugs = {}
    /\ articles = {}
    /\ new_drafts = 0
    /\ no_push = FALSE
    /\ blog_body = NoCall
    /\ now = 0
    /\ todo = <<>>
    /\ published_any = FALSE
    /\ printed = <<>>
    /\ news_index = <<>>
    /\ seen_urls = {}
    /\ new_count = 0
    /\ feed_left = 0
    /\ entry \in Articles
    /\ news_json = <<>>
    /\ news_dir = {}
    /\ pushes = 0
    /\ which \in {"emissions", "hydrogen"}
    /\ assigned = <<>>
    /\ NoTicks

NextScore == Score

SpecScore == InitScore /\ [][NextScore]_vars

(***************************************************************************)
(* Properties of the score.                                                *)
(***************************************************************************)
\* the places of text at which sub begins
Places(text, sub) ==
    {i \in 1..(Len(text) - Len(sub) + 1) : SubSeq(text, i, i + Len(sub) - 1) = sub}

\* the keywords of the table of w, lower-cased, with their weights
Keywords(w) ==
    {[keyword |-> LowerText(SCORE_WEIGHTS(w)[i].keyword), weight |-> SCORE_WEIGHTS(w)[i].weight] :
        i \in {j \in DOMAIN SCORE_WEIGHTS(w) : SCORE_WEIGHTS(w)[j].keyword[1] # "_"}}

\* weight * min(count, 3), and weight * 2 more when the keyword is in the title
Expected(k, title, content) ==
    LET lt    == LowerText(title)
        full  == lt \o <<" ">> \o LowerText(content)
        count == Cardinality(Places(full, k.keyword))
    IN  k.weight * (IF count < 3 THEN count ELSE 3)
          + (IF Places(lt, k.keyword) # {} THEN k.weight * 2 ELSE 0)

RECURSIVE SumExpected(_, _, _)
SumExpected(ks, title, content) ==
    IF ks = {} THEN 0
    ELSE LET k == CHOOSE x \in ks : TRUE
         IN  Expected(k, title, content) + SumExpected(ks \ {k}, title, content)

\* C13: the score of an article is the sum over the keywords of the table of
\* weight * min(count, 3), count the occurrences of the keyword in the
\* lower-cased title and text, plus weight * 2 for a keyword that occurs in
\* the title; it is not negative; and an article whose text holds a word more
\* than 3 times has the score of the article with the word 3 times.
C13_ScoreCapped ==
    pc = "scored"
    => /\ entry.score = SumExpected(Keywords(which), entry.title, entry.text)
       /\ entry.score >= 0
       /\ entry.n >= 3
            => entry.score = calculate_score(which, entry.title, Words(entry.word, 3))

C13_Witness ==
    /\ pc = "scored"
    /\ which = "emissions"
    /\ entry.n = 10
    /\ entry.word = <<"E", "U", "-", "E", "T", "S">>
    /\ entry.title = <<"E", "T", "S">>
    /\ entry.score = 15 * 3 + 10 * 3 + 10 * 2

(***************************************************************************)
(* Scraper and generator together: the emissions scraper fills             *)
(* news_emissions/ and the index, the generator drafts from the directory. *)
(***************************************************************************)
InitPipeline ==
    /\ pc = "idle"
    /\ clock = 1
    /\ blog_drafts = <<>>
    /\ blog_json = <<>>
    /\ drafts_dir = {}
    /\ posts_dir = {}
    /\ sync_log = <<>>
    /\ existing_urls = {}
    /\ existing_slugs = {}
    /\ articles = {}
    /\ new_drafts = 0
    /\ no_push = FALSE
    /\ blog_body = NoCall
    /\ now = 0
    /\ todo = <<>>
    /\ published_any = FALSE
    /\ printed = <<>>
    /\ ScraperEmpty
    /\ assigned = <<>>
    /\ NoTicks

NextPipeline ==
    \/ ScrapeStart
    \/ ScrapePass
    \/ ScrapeReject
    \/ ScrapeArchive
    \/ ScrapeFlush
    \/ ScrapeNoNews
    \/ GenStart
    \/ GenSkip
    \/ GenFail
    \/ GenDraft
    \/ GenEnd

SpecPipeline == InitPipeline /\ [][NextPipeline]_vars

(***************************************************************************)
(* The three programs started on manifest and index files that may hold    *)
(* text that is not JSON.                                                  *)
(***************************************************************************)
DueDraft ==
    [slug |-> <<"a">>, title |-> <<"T", "a">>, source_url |-> <<"site", 9>>,
     score |-> 85, scheduled |-> <<"ts", 1>>]

InitLoad ==
    /\ pc = "idle"
    /\ clock = 1
    /\ blog_drafts \in {MalformedJson, <<>>, <<DueDraft>>}
    /\ blog_json \in {MalformedJson, <<>>, <<OldPost>>}
    /\ drafts_dir \in SUBSET {[name |-> <<"a">>, body |-> <<"post", <<"a">>>>]}
    /\ posts_dir = IF blog_json = <<OldPost>>
                   THEN {[name |-> <<"o">>, body |-> <<"post", <<"o">>>>]} ELSE {}
    /\ sync_log = <<>>
    /\ existing_urls = {}
    /\ existing_slugs = {}
    /\ articles = {}
    /\ new_drafts = 0
    /\ no_push = FALSE
    /\ blog_body = NoCall
    /\ now = 0
    /\ todo = <<>>
    /\ published_any = FALSE
    /\ printed = <<>>
    /\ ScraperIdle
    /\ news_json \in {MalformedJson, <<>>, Filler(2)}
    /\ news_dir = {}
    /\ pushes = 0
    /\ which \in {"emissions", "hydrogen"}
    /\ assigned = <<>>
    /\ NoTicks

NextLoad ==
    \/ TickStart
    \/ TickCrash
    \/ TickSkip
    \/ TickNoFile
    \/ TickPublish
    \/ TickPublishCrash
    \/ TickEnd
    \/ GenStart
    \/ GenCrash
    \/ GenSkip
    \/ GenFail
    \/ GenDraft
    \/ GenEnd
    \/ ScrapeStart
    \/ ScrapePass
    \/ ScrapeReject
    \/ ScrapeArchive
    \/ ScrapeFlush
    \/ ScrapeNoNews

SpecLoad == InitLoad /\ [][NextLoad]_vars

(***************************************************************************)
(* Properties of the two thresholds.                                       *)
(***************************************************************************)
\* C12: a pass of the scraper writes an archive record or lengthens the index
\* only for an article whose score is at least 10, so no record of the archive
\* or of the index has a lower score; a pass of the generator adds a draft
\* only for a record of the archive whose score is at least 70, and the new
\* entry of the draft manifest has scheduled = null.
C12_Thresholds ==
    [][ /\ (pc = "scrape" /\ (news_dir' # news_dir \/ Len(news_index') > Len(news_index)))
            => /\ entry'.score >= 10
               /\ Head(news_index').score >= 10
        /\ \A f \in news_dir' : f.body.score >= 10
        /\ \A i \in DOMAIN news_json' : news_json'[i].score >= 10
        /\ (blog_drafts' # blog_drafts \/ drafts_dir' # drafts_dir)
            => /\ Len(blog_drafts') = Len(blog_drafts) + 1
               /\ SubSeq(blog_drafts', 1, Len(blog_drafts)) = blog_drafts
               /\ LET new == blog_drafts'[Len(blog_drafts')]
                  IN  /\ new.score >= 70
                      /\ new.scheduled = <<"none">>
                      /\ \E f \in news_dir : /\ f.body.source_url = new.source_url
                                              /\ f.body.title = new.title
                                              /\ f.body.score = new.score
        /\ \A i \in DOMAIN blog_drafts' : blog_drafts'[i].score >= 70 ]_vars

C12_Witness ==
    /\ pc = "gen"
    /\ Len(printed) = 2
    /\ printed[1] = "Draft saved"
    /\ blog_drafts # <<>>
    /\ blog_drafts[Len(blog_drafts)].score = 75
    /\ blog_drafts[Len(blog_drafts)].scheduled = None
    /\ \E f \in news_dir :
         /\ f.body.score = 69
         /\ \A i \in DOMAIN blog_drafts : blog_drafts[i].source_url # f.body.source_url
    /\ \A f \in news_dir : f.body.source_url # <<"site", 4>>

(***************************************************************************)
(* Properties of the blog generator.                                       *)
(***************************************************************************)
\* C11: a pass of the generator in which generate_blog_body returns the empty
\* string writes no drafts-area file, leaves both manifests, the set of URLs,
\* the set of slugs and the counter of drafts as they were, makes no sync
\* call, and the run goes on with the items that are left.
C11_FailedGenerationNoDraft ==
    [][ (pc = "gen" /\ blog_body' = <<>>)
        => /\ drafts_dir' = drafts_dir
           /\ posts_dir' = posts_dir
           /\ blog_drafts' = blog_drafts
           /\ blog_json' = blog_json
           /\ existing_urls' = existing_urls
           /\ existing_slugs' = existing_slugs
           /\ new_drafts' = new_drafts
           /\ sync_log' = sync_log
           /\ pc' = "gen"
           /\ \E item \in articles : articles' = articles \ {item} ]_vars

C11_Witness ==
    /\ pc = "gen"
    /\ blog_body = <<>>
    /\ printed = <<"BLOG", <<"site", 1>>>>
    /\ new_drafts = 1
    /\ Len(blog_drafts) = 1
    /\ <<"site", 1>> \notin existing_urls
    /\ \E item \in articles : item.source_url = <<"site", 2>>

(***************************************************************************)
(* Properties of the flush.                                                *)
(***************************************************************************)
\* C14: when the index file holds 50 entries and a run archives one item
\* whose score is higher than that of the last entry of the file, the file
\* written by the run holds 50 entries, the new item among them and the
\* former last entry not, and the archive record of that entry is still in
\* the directory.
C14_LowestDropped ==
    [][ (pc = "scrape" /\ pc' = "idle" /\ new_count = 1 /\ Len(news_json) = 50
            /\ Head(news_index).score > news_json[50].score)
        => /\ Len(news_json') = 50
           /\ \E i \in DOMAIN news_json' : news_json'[i] = Head(news_index)
           /\ \A i \in DOMAIN news_json' : news_json'[i] # news_json[50]
           /\ \A i \in DOMAIN news_json' : news_json'[i].source_url # news_json[50].source_url
           /\ FileExists(news_dir', slugify_news(news_json[50].title)) ]_vars

C14_Witness ==
    /\ pc = "idle"
    /\ clock = 1
    /\ printed = <<"Index updated", 1>>
    /\ Len(news_json) = 50
    /\ news_json[1].source_url = <<"site", 3>> /\ news_json[1].date = news_json[2].date
    /\ news_json[50].source_url = <<"site", 149>>
    /\ FileExists(news_dir, <<"f", "5", "0">>)
    /\ ReadFile(news_dir, <<"f", "5", "0">>).source_url = <<"site", 150>>

\* C15: a run of a scraper that archives nothing leaves the index file as it
\* is and makes no call of push_to_github; no pass over a feed entry writes
\* the index file or pushes, so the file is written at most once in a run,
\* when the run ends.
C15_NoNewsNoWrite ==
    [][ /\ (pc = "scrape" /\ pc' = "idle" /\ new_count = 0)
            => (news_json' = news_json /\ pushes' = pushes)
        /\ (pc = "scrape" /\ pc' = "scrape")
            => (news_json' = news_json /\ pushes' = pushes)
        /\ (pc = "idle" /\ pc' = "scrape")
            => (news_json' = news_json /\ pushes' = pushes)
        /\ pushes' # pushes => pushes' = pushes + 1
      ]_vars

C15_Witness ==
    /\ pc = "idle"
    /\ printed = <<"No new news found.">>
    /\ pushes = 1
    /\ Len(news_json) = 50
    /\ news_json[1].source_url = <<"site", 1>>

(***************************************************************************)
(* Properties of the published manifest.                                   *)
(***************************************************************************)
\* the slugs of the publish calls of a log of sync calls, oldest first
PublishedSlugs(log) ==
    LET calls == SelectSeq(log, LAMBDA c : c[1] = "publish")
    IN  [i \in DOMAIN calls |-> calls[i][2]]

\* C16: a step that changes the published manifest puts one entry, that of
\* the draft being published, at position 0 and leaves the entries that were
\* there in their order and unchanged; so the manifest lists the posts in
\* the reverse of the order in which they were published.
C16_NewestFirst ==
    [][ /\ blog_json' # blog_json
            => /\ pc = "tick" /\ todo # <<>>
               /\ Len(blog_json') = Len(blog_json) + 1
               /\ Tail(blog_json') = blog_json
               /\ Head(blog_json') = PublishedEntry(Head(todo))
        /\ Len(blog_json') = Len(PublishedSlugs(sync_log'))
        /\ \A i \in DOMAIN blog_json' :
               blog_json'[i].slug = PublishedSlugs(sync_log')[Len(blog_json') - i + 1] ]_vars

C16_Witness ==
    /\ pc = "tick"
    /\ Len(blog_json) = 2
    /\ blog_json[1].slug # blog_json[2].slug
    /\ PublishedSlugs(sync_log) = <<blog_json[2].slug, blog_json[1].slug>>
    /\ printed = <<"Pushed", blog_json[1].slug>>

(***************************************************************************)
(* Properties of the dedup test.                                           *)
(***************************************************************************)
\* C17: a pass over a feed entry whose link is a redirect wrapper archives
\* nothing when the link or the URL it wraps is in the set of known URLs of
\* the run; the entry is fetched only when neither is in the set.
C17_BothFormsChecked ==
    [][ (pc = "scrape" /\ pc' = "scrape" /\ entry'.link[1] = "google" /\ entry'.kw
            /\ (entry'.link \in seen_urls \/ <<"site", entry'.link[2]>> \in seen_urls))
        => /\ news_dir' = news_dir
           /\ news_index' = news_index
           /\ seen_urls' = seen_urls
           /\ new_count' = new_count
           /\ printed' = <<>> ]_vars

(***************************************************************************)
(* Properties of the loading of the stored files.                          *)
(***************************************************************************)
\* C18: a tick, a generator run or a scraper run that finds a manifest or
\* index file holding text that is not JSON goes on with the empty list in
\* its place, and no run ends with an exception.
C18_MalformedLoadsDefault ==
    [][ /\ printed' # <<"Traceback", "JSONDecodeError">>
        /\ (pc = "idle" /\ pc' = "scrape" /\ news_json = <<[malformed |-> TRUE]>>)
            => (news_index' = <<>> /\ seen_urls' = {})
        /\ (pc = "idle" /\ pc' = "tick" /\ blog_drafts = <<[malformed |-> TRUE]>>)
            => todo' = <<>>
        /\ (pc = "idle" /\ pc' = "gen" /\ blog_drafts = <<[malformed |-> TRUE]>>
                /\ blog_json = <<[malformed |-> TRUE]>>)
            => (existing_urls' = {} /\ existing_slugs' = {}) ]_vars

C20_DraftsMatchFiles ==
    /\ \A i \in DOMAIN blog_drafts :
          Cardinality({f \in drafts_dir : f.name = blog_drafts[i].slug}) = 1
    /\ \A f \in drafts_dir : \E i \in DOMAIN blog_drafts : blog_drafts[i].slug = f.name

C20_Witness ==
    /\ pc = "idle"
    /\ Len(blog_drafts) = 2
    /\ blog_drafts[1].slug # blog_drafts[2].slug
    /\ Cardinality(drafts_dir) = 2
    /\ Len(blog_json) = 1
    /\ FileExists(posts_dir, blog_json[1].slug)
    /\ ~FileExists(drafts_dir, blog_json[1].slug)
    /\ sync_log # <<>>
    /\ sync_log[Len(sync_log)][1] = "draft"

(***************************************************************************)
(* check_scheduled_emissions.py statement by statement.  A tick process is *)
(* a record of the locals of main and publish and of the statement it is   *)
(* at; each action below is one statement, so that other processes and a   *)
(* kill of the process come between the statements.                        *)
(***************************************************************************)
MaxCrashes == 1

\* an exception: <<>> stands for none
NoError == <<>>

\* a process that cron has not started
IdleTick ==
    [at |-> "idle", now |-> 0, todo |-> <<>>, published_any |-> FALSE,
     content |-> <<>>, loaded |-> <<>>, log |-> <<>>, error |-> NoError]

\* the process has ended: it returned from main, or an exception or a kill ended it
Ended(t) == t.at \in {"idle", "done", "crashed"}

\* the process was killed; its error names the statement it was at
Killed(t) == t.at = "crashed" /\ Len(t.error) = 2 /\ t.error[1] = "killed"

\* the loop variable meta
Meta(t) == Head(t.todo)

\* src and dst of publish, as names in drafts_dir and posts_dir
src(meta) == meta.slug

\* a published path that is not that of the slug
dst_other(meta) == meta.slug \o <<"x">>

dst(meta) == meta.slug

\* a read that returns nothing
ReadContent_none(meta) == <<>>

\* "content = f.read()"
ReadContent(meta) == ReadFile(drafts_dir, src(meta))

\* a removal that tolerates a missing file
RemoveRaises_never(dir, name) == FALSE

\* os.remove(path) raises FileNotFoundError on a missing file
RemoveRaises(dir, name) == ~FileExists(dir, name)

\* open(path) raises FileNotFoundError on a missing file
OpenRaises(dir, name) == ~FileExists(dir, name)

\* open(path, "w") leaves an empty file until the write reaches it; an empty
\* manifest file is not JSON
EmptyFile == <<>>

\* the exception the statement the process is at raises, NoError for none
Exception(t) ==
    CASE Ended(t) /\ Raises(blog_drafts) -> <<"JSONDecodeError">>
      [] t.at = "read" /\ OpenRaises(drafts_dir, src(Meta(t))) -> <<"FileNotFoundError">>
      [] t.at = "remove" /\ RemoveRaises(drafts_dir, src(Meta(t))) -> <<"FileNotFoundError">>
      [] t.at = "load_published" /\ Raises(blog_json) -> <<"JSONDecodeError">>
      [] t.at = "load_drafts" /\ Raises(blog_drafts) -> <<"JSONDecodeError">>
      [] OTHER -> NoError

\* the process goes on to the statement at, with the locals given
Goto(p, t, at) == ticks' = [ticks EXCEPT ![p] = [t EXCEPT !.at = at]]

\* cron starts the process: main up to the loop
TStart(p) ==
    /\ Ended(ticks[p])
    /\ Exception(ticks[p]) = NoError
    /\ ticks' = [ticks EXCEPT ![p] =
                    [IdleTick EXCEPT !.at = "loop", !.now = clock, !.todo = blog_drafts]]
    /\ UNCHANGED <<pc, clock, store, gen_locals, tick_locals, printed, scraper_vars,
                   assigned, crashes>>

\* the statement raises: the traceback ends the process
TRaise(p) ==
    /\ Exception(ticks[p]) # NoError
    /\ ticks[p].error # Exception(ticks[p])
    /\ ticks' = [ticks EXCEPT ![p] =
                    [(IF Ended(@) THEN IdleTick ELSE @) EXCEPT
                        !.at = "crashed", !.error = Exception(ticks[p])]]
    /\ UNCHANGED <<pc, clock, store, gen_locals, tick_locals, printed, scraper_vars,
                   assigned, crashes>>

\* a pass of the loop over a draft that is not due
TPass(p) ==
    /\ ticks[p].at = "loop"
    /\ ticks[p].todo # <<>>
    /\ ~IsDue(ticks[p].now, Meta(ticks[p]).scheduled)
    /\ ticks' = [ticks EXCEPT ![p].todo = Tail(@)]
    /\ UNCHANGED <<pc, clock, store, gen_locals, tick_locals, printed, scraper_vars,
                   assigned, crashes>>

\* the draft is due: main calls publish
TCall(p) ==
    /\ ticks[p].at = "loop"
    /\ ticks[p].todo # <<>>
    /\ IsDue(ticks[p].now, Meta(ticks[p]).scheduled)
    /\ Goto(p, ticks[p], "exists")
    /\ UNCHANGED <<pc, clock, store, gen_locals, tick_locals, printed, scraper_vars,
                   assigned, crashes>>

\* "if not os.path.exists(src)": publish returns False
TNoFile(p) ==
    /\ ticks[p].at = "exists"
    /\ ~FileExists(drafts_dir, src(Meta(ticks[p])))
    /\ ticks' = [ticks EXCEPT ![p] = [@ EXCEPT !.at = "loop", !.todo = Tail(@)]]
    /\ UNCHANGED <<pc, clock, store, gen_locals, tick_locals, printed, scraper_vars,
                   assigned, crashes>>

TExists(p) ==
    /\ ticks[p].at = "exists"
    /\ FileExists(drafts_dir, src(Meta(ticks[p])))
    /\ Goto(p, ticks[p], "read")
    /\ UNCHANGED <<pc, clock, store, gen_locals, tick_locals, printed, scraper_vars,
                   assigned, crashes>>

\* "with open(src) as f: content = f.read()"
TRead(p) ==
    /\ ticks[p].at = "read"
    /\ Exception(ticks[p]) = NoError
    /\ Goto(p, [ticks[p] EXCEPT !.content = ReadContent(Meta(ticks[p]))], "open_dst")
    /\ UNCHANGED <<pc, clock, store, gen_locals, tick_locals, printed, scraper_vars,
                   assigned, crashes>>

\* "with open(dst, 'w') as f": the file is created or cut to nothing
TOpenDst(p) ==
    /\ ticks[p].at = "open_dst"
    /\ posts_dir' = WriteFile(posts_dir, dst(Meta(ticks[p])), EmptyFile)
    /\ Goto(p, ticks[p], "write_dst")
    /\ UNCHANGED <<pc, clock, blog_drafts, blog_json, drafts_dir, sync_log, gen_locals,
                   tick_locals, printed, scraper_vars, assigned, crashes>>

\* "f.write(content)" and the close of the file
TWriteDst(p) ==
    /\ ticks[p].at = "write_dst"
    /\ posts_dir' = WriteFile(posts_dir, dst(Meta(ticks[p])), ticks[p].content)
    /\ Goto(p, ticks[p], "remove")
    /\ UNCHANGED <<pc, clock, blog_drafts, blog_json, drafts_dir, sync_log, gen_locals,
                   tick_locals, printed, scraper_vars, assigned, crashes>>

\* "os.remove(src)"
TRemove(p) ==
    /\ ticks[p].at = "remove"
    /\ Exception(ticks[p]) = NoError
    /\ drafts_dir' = RemoveFile(drafts_dir, src(Meta(ticks[p])))
    /\ Goto(p, ticks[p], "load_published")
    /\ UNCHANGED <<pc, clock, blog_drafts, blog_json, posts_dir, sync_log, gen_locals,
                   tick_locals, printed, scraper_vars, assigned, crashes>>

\* "published = load_json(BLOG_JSON, ...)" and the insert of the entry at its head
TLoadPublished(p) ==
    /\ ticks[p].at = "load_published"
    /\ Exception(ticks[p]) = NoError
    /\ Goto(p, [ticks[p] EXCEPT
                   !.loaded = InsertPost(blog_json, PublishedEntry(Meta(ticks[p])))],
            "open_published")
    /\ UNCHANGED <<pc, clock, store, gen_locals, tick_locals, printed, scraper_vars,
                   assigned, crashes>>

\* save_json(BLOG_JSON, published): "with open(path, 'w') as f"
TOpenPublished(p) ==
    /\ ticks[p].at = "open_published"
    /\ blog_json' = MalformedJson
    /\ Goto(p, ticks[p], "dump_published")
    /\ UNCHANGED <<pc, clock, blog_drafts, drafts_dir, posts_dir, sync_log, gen_locals,
                   tick_locals, printed, scraper_vars, assigned, crashes>>

\* save_json(BLOG_JSON, published): json.dump and the close of the file
TDumpPublished(p) ==
    /\ ticks[p].at = "dump_published"
    /\ blog_json' = ticks[p].loaded
    /\ Goto(p, ticks[p], "load_drafts")
    /\ UNCHANGED <<pc, clock, blog_drafts, drafts_dir, posts_dir, sync_log, gen_locals,
                   tick_locals, printed, scraper_vars, assigned, crashes>>

\* "drafts = load_json(BLOG_DRAFTS, ...)" and the filter by slug
TLoadDrafts(p) ==
    /\ ticks[p].at = "load_drafts"
    /\ Exception(ticks[p]) = NoError
    /\ Goto(p, [ticks[p] EXCEPT !.loaded = RemoveDraft(blog_drafts, Meta(ticks[p]).slug)],
            "open_drafts")
    /\ UNCHANGED <<pc, clock, store, gen_locals, tick_locals, printed, scraper_vars,
                   assigned, crashes>>

\* save_json(BLOG_DRAFTS, drafts): "with open(path, 'w') as f"
TOpenDrafts(p) ==
    /\ ticks[p].at = "open_drafts"
    /\ blog_drafts' = MalformedJson
    /\ Goto(p, ticks[p], "dump_drafts")
    /\ UNCHANGED <<pc, clock, blog_json, drafts_dir, posts_dir, sync_log, gen_locals,
                   tick_locals, printed, scraper_vars, assigned, crashes>>

\* save_json(BLOG_DRAFTS, drafts): json.dump and the close of the file;
\* publish returns True
TDumpDrafts(p) ==
    /\ ticks[p].at = "dump_drafts"
    /\ blog_drafts' = ticks[p].loaded
    /\ Goto(p, ticks[p], "git_push")
    /\ UNCHANGED <<pc, clock, blog_json, drafts_dir, posts_dir, sync_log, gen_locals,
                   tick_locals, printed, scraper_vars, assigned, crashes>>

\* git_push(meta["slug"]), "published_any = True", and the next pass
TPush(p) ==
    /\ ticks[p].at = "git_push"
    /\ sync_log' = Append(sync_log, <<"publish", Meta(ticks[p]).slug>>)
    /\ ticks' = [ticks EXCEPT ![p] =
                    [@ EXCEPT !.at = "loop", !.todo = Tail(@), !.published_any = TRUE,
                              !.content = <<>>, !.loaded = <<>>,
                              !.log = Append(@, Meta(ticks[p]).slug)]]
    /\ UNCHANGED <<pc, clock, blog_drafts, blog_json, drafts_dir, posts_dir, gen_locals,
                   tick_locals, printed, scraper_vars, assigned, crashes>>

\* the loop is over: main returns
TDone(p) ==
    /\ ticks[p].at = "loop"
    /\ ticks[p].todo = <<>>
    /\ Goto(p, ticks[p], "done")
    /\ UNCHANGED <<pc, clock, store, gen_locals, tick_locals, printed, scraper_vars,
                   assigned, crashes>>

\* the process is killed (power loss, SIGKILL) between two statements; the
\* statement it was at is kept with the error
TKill(p) ==
    /\ ~Ended(ticks[p])
    /\ crashes < MaxCrashes
    /\ crashes' = crashes + 1
    /\ ticks' = [ticks EXCEPT ![p] = [@ EXCEPT !.at = "crashed", !.error = <<"killed", ticks[p].at>>]]
    /\ UNCHANGED <<pc, clock, store, gen_locals, tick_locals, printed, scraper_vars,
                   assigned>>

\* the statements of process p
TStep(p) ==
    \/ TStart(p)
    \/ TRaise(p)
    \/ TPass(p)
    \/ TCall(p)
    \/ TNoFile(p)
    \/ TExists(p)
    \/ TRead(p)
    \/ TOpenDst(p)
    \/ TWriteDst(p)
    \/ TRemove(p)
    \/ TLoadPublished(p)
    \/ TOpenPublished(p)
    \/ TDumpPublished(p)
    \/ TLoadDrafts(p)
    \/ TOpenDrafts(p)
    \/ TDumpDrafts(p)
    \/ TPush(p)
    \/ TDone(p)

\* the drafts the processes find: each slug due or unscheduled
StepEntries == {e \in TickEntries : e.scheduled \in {None, <<"ts", 1>>}}

\* the site as the processes find it, with the processes procs not started
InitSteps(procs) ==
    /\ pc = "idle"
    /\ clock = 1
    /\ blog_drafts \in SeqsUpTo(StepEntries, 2)
    /\ blog_json \in {<<>>, <<OldPost>>}
    /\ drafts_dir \in SUBSET {[name |-> sl, body |-> <<"post", sl>>] : sl \in TickSlugs}
    /\ posts_dir = {[name |-> blog_json[i].slug, body |-> <<"post", blog_json[i].slug>>] :
                       i \in DOMAIN blog_json}
    /\ sync_log = <<>>
    /\ existing_urls = {}
    /\ existing_slugs = {}
    /\ articles = {}
    /\ new_drafts = 0
    /\ no_push = FALSE
    /\ blog_body = NoCall
    /\ now = 0
    /\ todo = <<>>
    /\ published_any = FALSE
    /\ printed = <<>>
    /\ ScraperEmpty
    /\ assigned = <<>>
    /\ ticks = [p \in procs |-> IdleTick]
    /\ crashes = 0

(***************************************************************************)
(* One tick process at a time, started again and again by cron, and killed *)
(* at most MaxCrashes times.                                               *)
(***************************************************************************)
InitCrash == InitSteps({1})

NextCrash ==
    \/ TStep(1)
    \/ TKill(1)

SpecCrash == InitCrash /\ [][NextCrash]_vars

\* cron starts a tick every 15 minutes and a started process runs on
SpecCrashFair == SpecCrash /\ WF_vars(TStep(1))

(***************************************************************************)
(* Two tick processes at the same time, none of them killed.               *)
(***************************************************************************)
InitConcurrent == InitSteps({1, 2})

NextConcurrent == \E p \in {1, 2} : TStep(p)

SpecConcurrent == InitConcurrent /\ [][NextConcurrent]_vars

(***************************************************************************)
(* Properties of publish under a kill of the process.                      *)
(***************************************************************************)
\* the content of the draft slug is whole in the drafts area or in the
\* published area
Complete(slug) ==
    \/ \E f \in drafts_dir : f.name = slug /\ f.body = <<"post", slug>>
    \/ \E f \in posts_dir : f.name = slug /\ f.body = <<"post", slug>>

\* C21: no statement of publish and no kill of the process between two of
\* its statements loses the content of a draft: content that is whole in
\* the drafts-area file or in the published-area file before a step is whole
\* in one of the two after it.
C21_ContentNeverLost ==
    [][ \A slug \in TickSlugs : Complete(slug) => Complete(slug)' ]_vars

C21_Witness ==
    /\ ticks[1].at = "crashed"
    /\ Killed(ticks[1])
    /\ ticks[1].todo # <<>>
    /\ Meta(ticks[1]).slug = <<"a">>
    /\ FileExists(posts_dir, <<"a">>)
    /\ ReadFile(posts_dir, <<"a">>) = EmptyFile
    /\ FileExists(drafts_dir, <<"a">>)
    /\ Complete(<<"a">>)


\* the manifest file is JSON and holds an entry of the slug
Listed(file, slug) == ~Raises(file) /\ HasSlug(file, slug)

\* the step is a kill of the process while it is at one of the statements ats
KilledAt(ats) ==
    /\ ticks[1].at \in ats
    /\ crashes' = crashes + 1
    /\ ticks'[1].at = "crashed"

\* C22 as stated: a kill of the process at any statement of publish behind
\* the removal of the drafts-area file (step 2) and before the draft manifest
\* is written back (step 4) leaves the draft in the draft manifest and in the
\* published manifest.
C22_CrashLeavesBoth ==
    [][ KilledAt({"load_published", "open_published", "dump_published",
                  "load_drafts", "open_drafts", "dump_drafts"})
            => /\ Listed(blog_drafts', Meta(ticks[1]).slug)
               /\ Listed(blog_json', Meta(ticks[1]).slug) ]_vars

\* C22, amended: a kill behind the write of the published manifest (step 3)
\* and before the draft manifest file is opened for writing leaves the draft
\* in both manifests; a kill behind step 2 and before the published manifest
\* file is opened for writing leaves it in the draft manifest alone, its
\* content file gone from the drafts area and whole in the published area;
\* a kill between the opening of a manifest file for writing and the end of
\* its write leaves that file without JSON in it.
C22_CrashBetweenManifests ==
    [][ /\ KilledAt({"load_drafts", "open_drafts"})
            => /\ Listed(blog_drafts', Meta(ticks[1]).slug)
               /\ Listed(blog_json', Meta(ticks[1]).slug)
        /\ KilledAt({"load_published", "open_published"})
            => /\ Listed(blog_drafts', Meta(ticks[1]).slug)
               /\ ~Listed(blog_json', Meta(ticks[1]).slug)
               /\ ~FileExists(drafts_dir', Meta(ticks[1]).slug)
               /\ Complete(Meta(ticks[1]).slug)'
        /\ KilledAt({"dump_published"})
            => Raises(blog_json') /\ Listed(blog_drafts', Meta(ticks[1]).slug)
        /\ KilledAt({"dump_drafts"})
            => Raises(blog_drafts') /\ Listed(blog_json', Meta(ticks[1]).slug)
      ]_vars

C22_Witness ==
    /\ ticks[1].at = "crashed"
    /\ Killed(ticks[1])
    /\ ticks[1].todo # <<>>
    /\ Listed(blog_drafts, Meta(ticks[1]).slug)
    /\ Listed(blog_json, Meta(ticks[1]).slug)
    /\ Head(blog_json).slug = Meta(ticks[1]).slug
    /\ ~FileExists(drafts_dir, Meta(ticks[1]).slug)


(***************************************************************************)
(* Properties of two ticks that run at the same time.                      *)
(***************************************************************************)
\* how many entries of the slug the manifest holds
Entries(posts, slug) == Cardinality({i \in DOMAIN posts : posts[i].slug = slug})

\* process p found the content file of the draft slug and lost it to the
\* other process before its own open or os.remove: both were in publish of
\* the same draft at the same time
LostRace(p, slug) ==
    /\ ticks[p].at = "crashed"
    /\ ticks[p].error = <<"FileNotFoundError">>
    /\ Meta(ticks[p]).slug = slug

\* C23 as stated, on the runs it is about: when two ticks were in publish of
\* the same due draft at the same time and both have ended, the published
\* manifest holds two entries with the slug of the draft.
C23_DoublePublish ==
    \A slug \in TickSlugs :
        (Ended(ticks[1]) /\ Ended(ticks[2]) /\ (LostRace(1, slug) \/ LostRace(2, slug)))
            => (~Raises(blog_json) /\ Entries(blog_json, slug) = 2)

\* C23, amended: two ticks that run at the same time over the same due draft
\* never publish it twice; in every state the published manifest holds at
\* most one entry of a slug, and a tick that is in publish of a draft whose
\* content file the other tick has removed ends with FileNotFoundError
\* before it writes a manifest.
C23_NoDoublePublish ==
    /\ ~Raises(blog_json) => \A slug \in TickSlugs : Entries(blog_json, slug) <= 1
    /\ \A p \in {1, 2}, slug \in TickSlugs :
          LostRace(p, slug) => ~\E i \in DOMAIN ticks[p].log : ticks[p].log[i] = slug

C23_Witness ==
    /\ LostRace(2, <<"a">>)
    /\ ticks[1].at = "done"
    /\ ticks[1].log = <<<<"a">>>>
    /\ ~Raises(blog_json)
    /\ Entries(blog_json, <<"a">>) = 1
    /\ ~Listed(blog_drafts, <<"a">>)
    /\ Complete(<<"a">>)


(***************************************************************************)
(* Properties of the order in which one tick publishes.                    *)
(***************************************************************************)
\* C24: when a pass of the tick publishes a draft, no draft the tick has
\* still to visit that is due and has its content file bears an earlier
\* scheduled timestamp: the drafts due in one tick are published in
\* ascending order of their timestamps.
C24_PublishedInScheduledOrder ==
    [][ (pc = "tick" /\ todo # <<>> /\ blog_json' # blog_json)
            => \A i \in 2..Len(todo) :
                  (IsDue(now, todo[i].scheduled) /\ FileExists(drafts_dir', todo[i].slug))
                      => strptime(todo[i].scheduled) >= strptime(Head(todo).scheduled)
      ]_vars


(***************************************************************************)
(* Properties of the archive under colliding file names.                   *)
(***************************************************************************)
\* C25: when the scraper archives an article whose title gives the file name
\* of an archive record of another source URL, the new item goes to the head
\* of the index in memory, which keeps every item it held (that of the other
\* article too), the archive holds one record of that file name, with the
\* data of the article archived last, and every other record is as it was.
C25_LastWriterWins ==
    [][ (pc = "scrape" /\ new_count' = new_count + 1)
            => \A name \in {slugify_news(entry'.title)} :
                  (/\ FileExists(news_dir, name)
                   /\ ReadFile(news_dir, name).source_url # real_url(which, entry'.link))
                      => /\ Len(news_index') = Len(news_index) + 1
                         /\ Tail(news_index') = news_index
                         /\ Head(news_index').source_url = real_url(which, entry'.link)
                         /\ Cardinality({f \in news_dir' : f.name = name}) = 1
                         /\ ReadFile(news_dir', name) = Head(news_index')
                         /\ {f \in news_dir' : f.name # name}
                                = {f \in news_dir : f.name # name}
      ]_vars

C25_Witness ==
    /\ pc = "scrape"
    /\ new_count = 2
    /\ Len(news_index) >= 2
    /\ news_index[1].source_url = <<"site", 2>>
    /\ news_index[2].source_url = <<"site", 1>>
    /\ slugify_news(news_index[1].title) = slugify_news(news_index[2].title)
    /\ news_index[1].title # news_index[2].title
    /\ Cardinality({f \in news_dir : f.name = <<"a", "b", "-", "c">>}) = 1
    /\ ReadFile(news_dir, <<"a", "b", "-", "c">>) = news_index[1]


\* C26: in every state, those left by a kill of the process inside publish
\* included, every slug the published manifest lists has a content file in
\* the published area.
C26_NoDanglingPost ==
    ~Raises(blog_json)
        => \A i \in DOMAIN blog_json : FileExists(posts_dir, blog_json[i].slug)

C26_Witness ==
    /\ ticks[1].at = "crashed"
    /\ Killed(ticks[1])
    /\ ticks[1].todo # <<>>
    /\ Listed(blog_json, Meta(ticks[1]).slug)
    /\ Len(blog_json) = 2
    /\ FileExists(posts_dir, Meta(ticks[1]).slug)
    /\ ReadFile(posts_dir, Meta(ticks[1]).slug) = <<"post", Meta(ticks[1]).slug>>
    /\ Raises(blog_drafts)


(***************************************************************************)
(* Properties of a whole tick in the draft lifecycle.  There every entry   *)
(* of the draft manifest has its content file when a tick starts, and      *)
(* nothing but the tick runs until it ends: what holds of the tick is what *)
(* holds of each of its passes.                                            *)
(***************************************************************************)
\* C27: the pass of a tick over a draft that is due leaves the published
\* manifest with exactly one entry of the slug of the draft, which is the
\* entry of that draft, and the draft manifest without an entry of the slug,
\* also when the pass is not the first of the tick over a due draft.
C27_DuePublishedOnce ==
    [][ (pc = "tick" /\ todo # <<>> /\ DueAt(Head(todo), now))
            => /\ Entries(blog_json', Head(todo).slug) = 1
               /\ \E i \in DOMAIN blog_json' : blog_json'[i] = PublishedEntry(Head(todo))
               /\ ~HasSlug(blog_drafts', Head(todo).slug)
      ]_vars


\* C28: a pass of the tick changes nothing of the drafts it does not
\* publish: a pass that publishes the draft it visits leaves the draft
\* manifest as it was with that one entry taken out, and the drafts area as it
\* was with the content file of that draft taken out, so that every other
\* entry keeps its fields, its place among the others and its content file;
\* a pass that publishes nothing leaves the draft manifest and the drafts
\* area as they were.
C28_UnpublishedUntouched ==
    [][ (pc = "tick" /\ todo # <<>>)
            => IF blog_json' # blog_json
               THEN /\ blog_drafts' = SelectSeq(blog_drafts, LAMBDA d : d # Head(todo))
                    /\ drafts_dir' = RemoveFile(drafts_dir, Head(todo).slug)
                    /\ \A i \in DOMAIN blog_drafts' :
                          /\ FileExists(drafts_dir, blog_drafts'[i].slug)
                                => FileExists(drafts_dir', blog_drafts'[i].slug)
                          /\ FileExists(drafts_dir', blog_drafts'[i].slug)
                                => ReadFile(drafts_dir', blog_drafts'[i].slug)
                                       = ReadFile(drafts_dir, blog_drafts'[i].slug)
               ELSE /\ blog_drafts' = blog_drafts
                    /\ drafts_dir' = drafts_dir
      ]_vars


(***************************************************************************)
(* Properties of the ticks that follow a kill.                             *)
(***************************************************************************)
\* the statements of publish behind the test for the content file
PublishStatements ==
    {"read", "open_dst", "write_dst", "remove", "load_published",
     "open_published", "dump_published", "load_drafts", "open_drafts", "dump_drafts"}

\* the process was killed inside publish of the draft slug, whose content
\* file it had found
Interrupted(slug) ==
    /\ Killed(ticks[1])
    /\ ticks[1].error[2] \in PublishStatements
    /\ ticks[1].todo # <<>>
    /\ Meta(ticks[1]).slug = slug

\* C29: once a tick was killed inside publish of a draft, the ticks that
\* cron starts afterwards and that run to their end bring the draft into
\* the published manifest and out of the draft manifest.
C29_InterruptedEventuallyPublished ==
    \A slug \in TickSlugs :
        Interrupted(slug) ~> (Listed(blog_json, slug) /\ ~Raises(blog_drafts)
                                 /\ ~HasSlug(blog_drafts, slug))


\* the slugs the run of process p has published and pushed
Pushed(p) == {ticks[p].log[i] : i \in DOMAIN ticks[p].log}

\* C30: when two ticks that ran at the same time have both returned from
\* main and each has published a draft the other has not, the published
\* manifest lists the slugs of both and the draft manifest lists neither.
C30_NoLostUpdate ==
    (/\ ticks[1].at = "done"
     /\ ticks[2].at = "done"
     /\ Pushed(1) # {}
     /\ Pushed(2) # {}
     /\ Pushed(1) \cap Pushed(2) = {})
        => \A slug \in Pushed(1) \cup Pushed(2) :
              /\ Listed(blog_json, slug)
              /\ ~Raises(blog_drafts)
              /\ ~HasSlug(blog_drafts, slug)

=============================================================================
